---- MODULE Spec2Model ----
(***************************************************************************)
(* Flavor-Library: the route handlers of app.py over the relational        *)
(* tables (User, Recipe, UserRecipe, SavedRecipe), the per-client login     *)
(* session, the process-local response cache and the external recipe API.  *)
(* One action per route handler: a request is handled to completion before *)
(* the next one starts (one worker).  For save_recipe there is, besides,    *)
(* one action per database statement, so that the requests of two workers   *)
(* interleave.                                                              *)
(***************************************************************************)
EXTENDS Integers, Sequences, FiniteSets, TLC

VARIABLES
    backend,       \* database behind DATABASE_URL: "postgresql" or "sqlite"
    users,         \* table User
    recipes,       \* table Recipe (persisted copies of API recipes)
    userRecipes,   \* table UserRecipe
    savedRecipes,  \* table SavedRecipe
    seq,           \* the id sequences of the serial primary keys (postgresql)
    session,       \* per client: the logged-in user id, 0 when anonymous
    cache,         \* the response cache: key -> [expires, value]
    now,           \* wall clock, seconds
    api,           \* external API: recipe id -> revision of its data
    last,          \* the last request handled and the response it got
    work           \* per worker: the save_recipe request it is handling

vars == <<backend, users, recipes, userRecipes, savedRecipes, seq, session,
          cache, now, api, last, work>>

db == <<users, recipes, userRecipes, savedRecipes>>

----------------------------------------------------------------------------
(* Bounds of the model *)

MaxId == 2          \* ids handed out per table
MaxTicks == 4       \* clock ticks
MaxRevision == 2    \* revisions of a recipe on the API side

(* Program constants *)

CACHE_TIMEOUT == 3600   \* cache.set(..., timeout=3600)

\* granularity of the modelled clock
TickSeconds == CACHE_TIMEOUT \div 2

Clients == {"c1", "c2"}
Backends == {"postgresql", "sqlite"}
Usernames == {"alice", "bob"}
Emails == {"alice@x.org", "bob@x.org"}
Passwords == {"Test1234!", "hunter2"}
RecipeIds == {1, 2}
Methods == {"GET", "POST"}
Anonymous == 0

----------------------------------------------------------------------------
(* Helpers *)

Max(S) == IF S = {} THEN 0 ELSE CHOOSE m \in S : \A x \in S : x <= m

Ids(table) == {r.id : r \in table}

\* The id the database gives the next inserted row of a table with an
\* autoincrementing integer key: the next value of the sequence on
\* postgresql, the largest rowid plus one on sqlite.
NextId(table, name) ==
    IF backend = "postgresql" THEN seq[name] + 1 ELSE Max(Ids(table)) + 1

\* The sequence after an insert was attempted (a postgresql sequence is
\* advanced even when the insert is rolled back).
SeqAfter(name) ==
    IF backend = "postgresql" THEN [seq EXCEPT ![name] = seq[name] + 1] ELSE seq

\* werkzeug password hashing behind User.set_password / User.check_password
PasswordHash(p) == <<"pbkdf2:sha256", p>>

set_password(user, p) == [user EXCEPT !.password_hash = PasswordHash(p)]

check_password(user, p) == user.password_hash = PasswordHash(p)

\* flask_login: current_user of the client's session (load_user)
load_user(user_id) == {u \in users : u.id = user_id}

current_user(c) == IF load_user(session[c]) = {} THEN Anonymous ELSE session[c]

is_authenticated(c) == current_user(c) # Anonymous

\* The response to a request, as recorded in `last`; `calls` is the sequence
\* of status codes the external API answered with while it was handled.
Response(route, c, arg, status, target, flash, calls, body) ==
    [route |-> route, client |-> c, user |-> current_user(c), arg |-> arg,
     status |-> status, target |-> target, flash |-> flash,
     api |-> calls, body |-> body]

\* a plausible slip: no login_view is set, and flask_login answers 401
UnauthorizedNoLoginView(route, c, arg) ==
    /\ ~(current_user(c) # Anonymous)
    /\ last' = [route |-> route, client |-> c, user |-> Anonymous, arg |-> arg,
                status |-> 401, target |-> "Unauthorized", flash |-> <<>>,
                api |-> <<>>, body |-> <<>>]
    /\ UNCHANGED <<work, backend, users, recipes, userRecipes, savedRecipes, seq,
                   session, cache, now, api>>

\* login_required with login_manager.login_view = 'login': an anonymous
\* request is redirected to the login page and the view is not called.
Unauthorized(route, c, arg) ==
    /\ ~is_authenticated(c)
    /\ last' = Response(route, c, arg, 302, "login",
                        <<"Please log in to access this page.">>, <<>>, <<>>)
    /\ UNCHANGED <<work, backend, users, recipes, userRecipes, savedRecipes, seq,
                   session, cache, now, api>>

----------------------------------------------------------------------------
(* /register *)

RegistrationForms ==
    [username : Usernames \cup {""}, email : Emails,
     password : Passwords, confirm_password : Passwords]

\* RegistrationForm validators: every field required, confirm_password
\* equal to password
RegistrationFormValid(form) ==
    /\ form.username # "" /\ form.email # "" /\ form.password # ""
    /\ form.confirm_password = form.password

\* The unique constraints of table user that an insert of (username, email)
\* violates
ViolatedConstraints(username, email) ==
    {"username" : u \in {x \in users : x.username = username}}
    \cup {"email" : u \in {x \in users : x.email = email}}

\* str(e.orig) of the IntegrityError, as words
IntegrityErrorText(column) ==
    IF backend = "postgresql"
    THEN <<"duplicate key value violates unique constraint",
           "user_" \o column \o "_key">>
    ELSE <<"UNIQUE constraint failed:", "user." \o column>>

Contains(text, word) == \E i \in 1..Len(text) : text[i] = word

\* the except-branch of register: the message flashed for the error text
IntegrityErrorFlash(text) ==
    IF Contains(text, "user_username_key")
    THEN <<"Username already taken. Please choose a different one.">>
    ELSE IF Contains(text, "user_email_key")
    THEN <<"Email already taken. Please choose a different one.">>
    ELSE <<>>

\* the try-branch of register: the row is committed and the client logged in
RegisterSucceeded(c, form, user) ==
    /\ users' = users \cup {user}
    /\ session' = [session EXCEPT ![c] = user.id]
    /\ last' = Response("register", c, form, 302, "index",
                        <<"Your account has been created!">>, <<>>, <<>>)

\* a plausible slip: the client is logged in although the commit failed
RegisterFailedLogsIn(c, form, column) ==
    /\ users' = users
    /\ \E u \in users :
         /\ u.username = form.username \/ u.email = form.email
         /\ session' = [session EXCEPT ![c] = u.id]
    /\ last' = Response("register", c, form, 302, "index",
                        IntegrityErrorFlash(IntegrityErrorText(column)), <<>>, <<>>)

\* the except-branch of register: rollback, flash, redirect to the form
RegisterFailed(c, form, column) ==
    /\ users' = users
    /\ session' = session
    /\ last' = Response("register", c, form, 302, "register",
                        IntegrityErrorFlash(IntegrityErrorText(column)), <<>>, <<>>)

Register(c, method, form) ==
    /\ UNCHANGED <<work, backend, recipes, userRecipes, savedRecipes, cache, now, api>>
    /\ IF method = "POST" /\ RegistrationFormValid(form)
       THEN LET violated == ViolatedConstraints(form.username, form.email)
                id == NextId(users, "user")
                user == set_password([id |-> id, username |-> form.username,
                                      email |-> form.email,
                                      password_hash |-> <<>>], form.password)
            IN
            /\ id <= MaxId
            /\ seq' = SeqAfter("user")
            /\ IF violated = {}
               THEN RegisterSucceeded(c, form, user)
               ELSE \E column \in violated : RegisterFailed(c, form, column)
       ELSE /\ last' = Response("register", c, form, 200, "register.html",
                                <<>>, <<>>, <<>>)
            /\ UNCHANGED <<users, seq, session>>

----------------------------------------------------------------------------
(* /login, /logout *)

LoginForms == [email : Emails \cup {""}, password : Passwords]

LoginFormValid(form) == form.email # "" /\ form.password # ""

\* User.query.filter_by(email=...).first()
UserByEmail(email) == {u \in users : u.email = email}

\* a plausible slip: the password is not checked
LoginAcceptsAnyPassword(user, form) == TRUE

\* `user and user.check_password(form.password.data)` for a row found
LoginAccepts(user, form) == check_password(user, form.password)

Login(c, method, form) ==
    /\ UNCHANGED <<work, backend, users, recipes, userRecipes, savedRecipes, seq,
                   cache, now, api>>
    /\ IF method = "POST" /\ LoginFormValid(form)
       THEN LET found == UserByEmail(form.email)
                failed ==
                    /\ session' = session
                    /\ last' = Response("login", c, form, 200, "login.html",
                         <<"Login unsuccessful. Please check email and password.">>,
                         <<>>, <<>>)
            IN
            IF found = {}
            THEN failed
            ELSE \E user \in found :
                 IF LoginAccepts(user, form)
                 THEN /\ session' = [session EXCEPT ![c] = user.id]
                      /\ last' = Response("login", c, form, 302, "index",
                                          <<>>, <<>>, <<>>)
                 ELSE failed
       ELSE /\ session' = session
            /\ last' = Response("login", c, form, 200, "login.html",
                                <<>>, <<>>, <<>>)

Logout(c) ==
    \/ Unauthorized("logout", c, <<>>)
    \/ /\ is_authenticated(c)
       /\ session' = [session EXCEPT ![c] = Anonymous]
       /\ last' = Response("logout", c, <<>>, 302, "index", <<>>, <<>>, <<>>)
       /\ UNCHANGED <<work, backend, users, recipes, userRecipes, savedRecipes, seq,
                      cache, now, api>>

----------------------------------------------------------------------------

(* The external recipe API: GET /recipes/<id>/information *)

RecipeTitle(r, rev) == <<"title", r, rev>>

\* response.json() of a 200 answer for recipe r at the API's current revision
RecipeData(r) ==
    [id |-> r,
     title |-> RecipeTitle(r, api[r]),
     extendedIngredients |-> IF r = 1 THEN <<[name |-> "egg"], [name |-> "milk"]>>
                             ELSE <<[name |-> "rice"]>>,
     instructions |-> <<"instructions", r, api[r]>>]

StatusCodes == {200, 404, 500}

\* a plausible slip: only 404 is taken for a failure
ApiOkUnless404(status_code) == status_code # 404

\* response.status_code == 200
ApiOk(status_code) == status_code = 200

\* ', '.join(names)
RECURSIVE Join(_)
Join(names) ==
    IF names = <<>> THEN ""
    ELSE IF Len(names) = 1 THEN names[1]
    ELSE names[1] \o ", " \o Join(Tail(names))

IngredientNames(data) ==
    [i \in 1..Len(data.extendedIngredients) |-> data.extendedIngredients[i].name]

----------------------------------------------------------------------------
(* The response cache (flask_caching, CACHE_TYPE 'simple') *)

\* a plausible slip: the key does not include the recipe id
CacheKeyShared(recipe_id) == <<"recipe_">>

\* f"recipe_{recipe_id}"
CacheKey(recipe_id) == <<"recipe_", recipe_id>>

\* cache.get(key): the values stored under key that have not expired
\* (none or one)
cache_get(key) == {e.value : e \in {x \in cache : x.key = key /\ x.expires > now}}

\* cache.set(key, value, timeout)
cache_set(key, value, timeout) ==
    {e \in cache : e.key # key}
    \cup {[key |-> key, value |-> value, expires |-> now + timeout]}

----------------------------------------------------------------------------
(* /recipe/<id> *)

\* SavedRecipe.query.filter_by(user_id=..., recipe_id=...)
SavedBy(user_id, recipe_id) ==
    {s \in savedRecipes : s.user_id = user_id /\ s.recipe_id = recipe_id}

ViewRecipe(c, recipe_id) ==
    /\ UNCHANGED <<work, backend, users, recipes, userRecipes, savedRecipes, seq,
                   session, now, api>>
    /\ LET cached == cache_get(CacheKey(recipe_id))
           already_saved == IF is_authenticated(c)
                            THEN SavedBy(current_user(c), recipe_id) ELSE {}
       IN
       IF cached # {}
       THEN /\ cache' = cache
            /\ \E recipe \in cached :
                 last' = Response("view_recipe", c, recipe_id, 200,
                            "view_recipe.html", <<>>, <<>>,
                            [recipe |-> recipe, already_saved |-> already_saved])
       ELSE \E status_code \in StatusCodes :
            IF ApiOk(status_code)
            THEN /\ cache' = cache_set(CacheKey(recipe_id), RecipeData(recipe_id),
                                       CACHE_TIMEOUT)
                 /\ last' = Response("view_recipe", c, recipe_id, 200,
                              "view_recipe.html", <<>>, <<status_code>>,
                              [recipe |-> RecipeData(recipe_id),
                               already_saved |-> already_saved])
            ELSE /\ cache' = cache
                 /\ last' = Response("view_recipe", c, recipe_id, 404,
                              "Recipe not found", <<>>, <<status_code>>, <<>>)

----------------------------------------------------------------------------
(* /save_recipe/<id>, /saved_recipes, /delete_saved_recipe/<id> *)

\* Recipe.query.filter_by(id=recipe_id).first()
RecipeById(recipe_id) == {r \in recipes : r.id = recipe_id}

\* a plausible slip: the id is left to the database instead of mirroring
\* the API's
NewRecipeOwnId(recipe_data, user_id) ==
    [id |-> Max(Ids(recipes)) + 1,
     title |-> recipe_data.title,
     ingredients |-> "",
     instructions |-> recipe_data.instructions,
     user_id |-> user_id]

\* The Recipe row built from the API's answer
NewRecipe(recipe_data, user_id) ==
    [id |-> recipe_data.id,
     title |-> recipe_data.title,
     ingredients |-> Join(IngredientNames(recipe_data)),
     instructions |-> recipe_data.instructions,
     user_id |-> user_id]

\* a plausible slip: the lookup never finds the row
AlreadySavedUnchecked(c, recipe) == FALSE

\* SavedRecipe.query.filter_by(user_id=current_user.id, recipe_id=recipe.id).first()
AlreadySaved(c, recipe) == SavedBy(current_user(c), recipe.id) # {}

\* The second half of save_recipe: the SavedRecipe row for (current user,
\* recipe), unless there is one already. `recs` is the Recipe table after
\* the first half, `calls` the API calls made so far.
SaveFor(c, recipe_id, recipe, recs, calls) ==
    /\ recipes' = recs
    /\ IF AlreadySaved(c, recipe)
       THEN /\ savedRecipes' = savedRecipes
            /\ seq' = seq
            /\ last' = Response("save_recipe", c, recipe_id, 302, "index",
                          <<"You have already saved this recipe!">>, calls, <<>>)
       ELSE LET id == NextId(savedRecipes, "saved_recipe") IN
            /\ id <= MaxId
            /\ savedRecipes' = savedRecipes \cup
                  {[id |-> id, user_id |-> current_user(c), recipe_id |-> recipe.id]}
            /\ seq' = SeqAfter("saved_recipe")
            /\ last' = Response("save_recipe", c, recipe_id, 302, "index",
                          <<"Recipe saved!">>, calls, <<>>)

SaveRecipe(c, recipe_id) ==
    \/ Unauthorized("save_recipe", c, recipe_id)
    \/ /\ is_authenticated(c)
       /\ UNCHANGED <<work, backend, users, userRecipes, session, cache, now, api>>
       /\ IF RecipeById(recipe_id) # {}
          THEN \E recipe \in RecipeById(recipe_id) :
                   SaveFor(c, recipe_id, recipe, recipes, <<>>)
          ELSE \E status_code \in StatusCodes :
               IF ApiOk(status_code)
               THEN LET recipe == NewRecipe(RecipeData(recipe_id), current_user(c))
                    IN SaveFor(c, recipe_id, recipe, recipes \cup {recipe},
                               <<status_code>>)
               ELSE /\ last' = Response("save_recipe", c, recipe_id, 302, "index",
                                 <<"Recipe not found in Spoonacular!">>,
                                 <<status_code>>, <<>>)
                    /\ UNCHANGED <<recipes, savedRecipes, seq>>

SavedRecipes(c) ==
    \/ Unauthorized("saved_recipes", c, <<>>)
    \/ /\ is_authenticated(c)
       /\ last' = Response("saved_recipes", c, <<>>, 200, "saved_recipes.html",
                     <<>>, <<>>, {s \in savedRecipes : s.user_id = current_user(c)})
       /\ UNCHANGED <<work, backend, users, recipes, userRecipes, savedRecipes, seq,
                      session, cache, now, api>>

\* a plausible slip: the owner is not checked
SavedRecipeNotOwnedUnchecked(c, saved_recipe) == FALSE

\* saved_recipe.user_id != current_user.id
SavedRecipeNotOwned(c, saved_recipe) == saved_recipe.user_id # current_user(c)

DeleteSavedRecipe(c, saved_recipe_id) ==
    \/ Unauthorized("delete_saved_recipe", c, saved_recipe_id)
    \/ /\ is_authenticated(c)
       /\ UNCHANGED <<work, backend, users, recipes, userRecipes, seq, session, cache,
                      now, api>>
       /\ LET found == {s \in savedRecipes : s.id = saved_recipe_id} IN
          IF found = {}
          THEN /\ savedRecipes' = savedRecipes
               /\ last' = Response("delete_saved_recipe", c, saved_recipe_id,
                             404, "Not Found", <<>>, <<>>, <<>>)
          ELSE \E saved_recipe \in found :
               IF SavedRecipeNotOwned(c, saved_recipe)
               THEN /\ savedRecipes' = savedRecipes
                    /\ last' = Response("delete_saved_recipe", c, saved_recipe_id,
                          302, "saved_recipes",
                          <<"You are not authorized to delete this saved recipe.">>,
                          <<>>, <<>>)
               ELSE /\ savedRecipes' = savedRecipes \ {saved_recipe}
                    /\ last' = Response("delete_saved_recipe", c, saved_recipe_id,
                          302, "saved_recipes",
                          <<"Recipe removed from your saved list!">>, <<>>, <<>>)

----------------------------------------------------------------------------
(* /create_recipe, /my_recipes, /delete_my_recipe/<id> *)

Titles == {"Soup", "Cake"}

RecipeForms ==
    [title : Titles \cup {""}, ingredients : {"Eggs, Milk, Salt"},
     instructions : {"Mix it all"}, image_url : {"https://example.com/a.jpg"}]

\* RecipeForm validators: title, ingredients and instructions required
RecipeFormValid(form) ==
    form.title # "" /\ form.ingredients # "" /\ form.instructions # ""

\* The UserRecipe row built from the form
NewUserRecipe(id, form, user_id) ==
    [id |-> id, title |-> form.title, ingredients |-> form.ingredients,
     instructions |-> form.instructions, user_id |-> user_id,
     image_url |-> form.image_url]

CreateRecipe(c, method, form) ==
    \/ Unauthorized("create_recipe", c, form)
    \/ /\ is_authenticated(c)
       /\ UNCHANGED <<work, backend, users, recipes, savedRecipes, session, cache,
                      now, api>>
       /\ IF method = "POST" /\ RecipeFormValid(form)
          THEN LET id == NextId(userRecipes, "user_recipe") IN
               /\ id <= MaxId
               /\ userRecipes' = userRecipes \cup
                                   {NewUserRecipe(id, form, current_user(c))}
               /\ seq' = SeqAfter("user_recipe")
               /\ last' = Response("create_recipe", c, form, 302, "index",
                             <<"Your recipe has been created!">>, <<>>, <<>>)
          ELSE /\ last' = Response("create_recipe", c, form, 200,
                             "create_recipe.html", <<>>, <<>>, <<>>)
               /\ UNCHANGED <<userRecipes, seq>>

\* a plausible slip: the query is not filtered by owner
RecipesOfAnyone(user_id) == userRecipes

\* UserRecipe.query.filter_by(user_id=...).all()
RecipesOf(user_id) == {r \in userRecipes : r.user_id = user_id}

MyRecipes(c) ==
    \/ Unauthorized("my_recipes", c, <<>>)
    \/ /\ is_authenticated(c)
       /\ last' = Response("my_recipes", c, <<>>, 200, "my_recipes.html",
                     <<>>, <<>>, RecipesOf(current_user(c)))
       /\ UNCHANGED <<work, backend, users, recipes, userRecipes, savedRecipes, seq,
                      session, cache, now, api>>

\* recipe.user_id != current_user.id
RecipeNotOwned(c, recipe) == recipe.user_id # current_user(c)

DeleteMyRecipe(c, recipe_id) ==
    \/ Unauthorized("delete_my_recipe", c, recipe_id)
    \/ /\ is_authenticated(c)
       /\ UNCHANGED <<work, backend, users, recipes, savedRecipes, seq, session, cache,
                      now, api>>
       /\ LET found == {r \in userRecipes : r.id = recipe_id} IN
          IF found = {}
          THEN /\ userRecipes' = userRecipes
               /\ last' = Response("delete_my_recipe", c, recipe_id,
                             404, "Not Found", <<>>, <<>>, <<>>)
          ELSE \E recipe \in found :
               IF RecipeNotOwned(c, recipe)
               THEN /\ userRecipes' = userRecipes
                    /\ last' = Response("delete_my_recipe", c, recipe_id,
                          302, "my_recipes",
                          <<"You are not authorized to delete this recipe.">>,
                          <<>>, <<>>)
               ELSE /\ userRecipes' = userRecipes \ {recipe}
                    /\ last' = Response("delete_my_recipe", c, recipe_id,
                          302, "my_recipes",
                          <<"Your recipe has been deleted!">>, <<>>, <<>>)

----------------------------------------------------------------------------
(* The environment: the clock and the API's data *)

Tick ==
    /\ now < MaxTicks * TickSeconds
    /\ now' = now + TickSeconds
    /\ UNCHANGED <<work, backend, users, recipes, userRecipes, savedRecipes, seq,
                   session, cache, api, last>>

ApiChange(recipe_id) ==
    /\ api[recipe_id] < MaxRevision
    /\ api' = [api EXCEPT ![recipe_id] = @ + 1]
    /\ UNCHANGED <<work, backend, users, recipes, userRecipes, savedRecipes, seq,
                   session, cache, now, last>>

----------------------------------------------------------------------------
(* save_recipe, one database statement at a time, by two workers *)

Workers == {"w1", "w2"}

\* A worker between requests
Idle ==
    [pc |-> "idle", client |-> "c1", user |-> Anonymous, arg |-> 0,
     recipe |-> {}, calls |-> <<>>]

\* The response of a worker's request; current_user was loaded when the
\* request came in.
WorkerResponse(w, status, target, flash) ==
    [route |-> "save_recipe", client |-> work[w].client, user |-> work[w].user,
     arg |-> work[w].arg, status |-> status, target |-> target,
     flash |-> flash, api |-> work[w].calls, body |-> <<>>]

\* The worker has answered its request
Finish(w, status, target, flash) ==
    /\ last' = WorkerResponse(w, status, target, flash)
    /\ work' = [work EXCEPT ![w] = Idle]

\* An IntegrityError raised by commit() that no handler of save_recipe
\* catches: the transaction is rolled back and the answer is a 500.
UnhandledIntegrityError(w) ==
    Finish(w, 500, "Internal Server Error", <<>>)

\* login_required, then Recipe.query.filter_by(id=recipe_id).first() and,
\* when there is no row, the call of the API
SaveLookupRecipe(w, c, recipe_id) ==
    /\ work[w].pc = "idle"
    /\ is_authenticated(c)
    /\ UNCHANGED <<backend, users, recipes, userRecipes, savedRecipes, seq,
                   session, cache, now, api>>
    /\ LET request == [Idle EXCEPT !.client = c, !.user = current_user(c),
                                   !.arg = recipe_id]
       IN
       IF RecipeById(recipe_id) # {}
       THEN /\ work' = [work EXCEPT ![w] =
                          [request EXCEPT !.pc = "lookup_saved",
                                          !.recipe = RecipeById(recipe_id)]]
            /\ last' = last
       ELSE \E status_code \in StatusCodes :
            IF ApiOk(status_code)
            THEN /\ work' = [work EXCEPT ![w] =
                      [request EXCEPT
                         !.pc = "insert_recipe",
                         !.recipe = {NewRecipe(RecipeData(recipe_id),
                                               current_user(c))},
                         !.calls = <<status_code>>]]
                 /\ last' = last
            ELSE /\ work' = work
                 /\ last' = [route |-> "save_recipe", client |-> c,
                             user |-> current_user(c), arg |-> recipe_id,
                             status |-> 302, target |-> "index",
                             flash |-> <<"Recipe not found in Spoonacular!">>,
                             api |-> <<status_code>>, body |-> <<>>]

\* db.session.add(recipe); db.session.commit(): Recipe.id is the primary key
SaveInsertRecipe(w) ==
    /\ work[w].pc = "insert_recipe"
    /\ UNCHANGED <<backend, users, userRecipes, savedRecipes, seq, session,
                   cache, now, api>>
    /\ \E recipe \in work[w].recipe :
         IF RecipeById(recipe.id) # {}
         THEN /\ recipes' = recipes
              /\ UnhandledIntegrityError(w)
         ELSE /\ recipes' = recipes \cup {recipe}
              /\ work' = [work EXCEPT ![w].pc = "lookup_saved"]
              /\ last' = last

\* SavedRecipe.query.filter_by(user_id=current_user.id, recipe_id=recipe.id).first()
SaveLookupSaved(w) ==
    /\ work[w].pc = "lookup_saved"
    /\ UNCHANGED <<backend, users, recipes, userRecipes, savedRecipes, seq,
                   session, cache, now, api>>
    /\ \E recipe \in work[w].recipe :
         IF SavedBy(work[w].user, recipe.id) # {}
         THEN Finish(w, 302, "index", <<"You have already saved this recipe!">>)
         ELSE /\ work' = [work EXCEPT ![w].pc = "insert_saved"]
              /\ last' = last

\* db.session.add(saved_recipe); db.session.commit(), where the pair has no
\* row yet, or has one and the table has no unique constraint on the pair
SaveInsertSaved(w) ==
    /\ work[w].pc = "insert_saved"
    /\ UNCHANGED <<backend, users, recipes, userRecipes, session, cache, now,
                   api>>
    /\ \E recipe \in work[w].recipe :
         LET id == NextId(savedRecipes, "saved_recipe") IN
         /\ id <= MaxId
         /\ savedRecipes' = savedRecipes \cup
               {[id |-> id, user_id |-> work[w].user, recipe_id |-> recipe.id]}
         /\ seq' = SeqAfter("saved_recipe")
         /\ Finish(w, 302, "index", <<"Recipe saved!">>)

\* The same commit where the pair has a row and the table has a unique
\* constraint on the pair
SaveInsertSavedConflict(w) ==
    /\ work[w].pc = "insert_saved"
    /\ UNCHANGED <<backend, users, recipes, userRecipes, savedRecipes, session,
                   cache, now, api>>
    /\ \E recipe \in work[w].recipe :
         /\ SavedBy(work[w].user, recipe.id) # {}
         /\ NextId(savedRecipes, "saved_recipe") <= MaxId
         /\ seq' = SeqAfter("saved_recipe")
         /\ UnhandledIntegrityError(w)

----------------------------------------------------------------------------
(* Specifications *)

\* No request handled yet
NoRequest ==
    [route |-> "", client |-> "c1", user |-> Anonymous, arg |-> <<>>,
     status |-> 0, target |-> "", flash |-> <<>>, api |-> <<>>, body |-> <<>>]

Init ==
    /\ backend \in Backends
    /\ users = {}
    /\ recipes = {}
    /\ userRecipes = {}
    /\ savedRecipes = {}
    /\ seq = [user |-> 0, user_recipe |-> 0, saved_recipe |-> 0]
    /\ session = [c \in Clients |-> Anonymous]
    /\ cache = {}
    /\ now = 0
    /\ api = [r \in RecipeIds |-> 1]
    /\ last = NoRequest
    /\ work = [w \in Workers |-> Idle]

\* A GET request carries no form data
EmptyRegistrationForm ==
    [username |-> "", email |-> "", password |-> "", confirm_password |-> ""]

EmptyLoginForm == [email |-> "", password |-> ""]

EmptyRecipeForm ==
    [title |-> "", ingredients |-> "", instructions |-> "", image_url |-> ""]

RegisterRequest ==
    \/ \E c \in Clients, f \in RegistrationForms : Register(c, "POST", f)
    \/ \E c \in Clients : Register(c, "GET", EmptyRegistrationForm)

LoginRequest ==
    \/ \E c \in Clients, f \in LoginForms : Login(c, "POST", f)
    \/ \E c \in Clients : Login(c, "GET", EmptyLoginForm)

CreateRecipeRequest ==
    \/ \E c \in Clients, f \in RecipeForms : CreateRecipe(c, "POST", f)
    \/ \E c \in Clients : CreateRecipe(c, "GET", EmptyRecipeForm)

RowIds == 1..MaxId

Next ==
    \/ RegisterRequest
    \/ LoginRequest
    \/ \E c \in Clients : Logout(c)
    \/ \E c \in Clients, r \in RecipeIds : ViewRecipe(c, r)
    \/ \E c \in Clients, r \in RecipeIds : SaveRecipe(c, r)
    \/ \E c \in Clients : SavedRecipes(c)
    \/ \E c \in Clients, i \in RowIds : DeleteSavedRecipe(c, i)
    \/ CreateRecipeRequest
    \/ \E c \in Clients : MyRecipes(c)
    \/ \E c \in Clients, i \in RowIds : DeleteMyRecipe(c, i)
    \/ Tick
    \/ \E r \in RecipeIds : ApiChange(r)

Spec == Init /\ [][Next]_vars

NextAuth ==
    \/ RegisterRequest
    \/ LoginRequest
    \/ \E c \in Clients : Logout(c)

SpecAuth == Init /\ [][NextAuth]_vars

\* The database with two registered users, nobody logged in (the state the
\* new_user fixture of test_app.py sets up, for two users)
Registered(id, username, email, password) ==
    set_password([id |-> id, username |-> username, email |-> email,
                  password_hash |-> <<>>], password)

InitRegistered ==
    /\ backend \in Backends
    /\ users = {Registered(1, "alice", "alice@x.org", "Test1234!"),
                Registered(2, "bob", "bob@x.org", "hunter2")}
    /\ recipes = {}
    /\ userRecipes = {}
    /\ savedRecipes = {}
    /\ seq = [user |-> IF backend = "postgresql" THEN 2 ELSE 0,
              user_recipe |-> 0, saved_recipe |-> 0]
    /\ session = [c \in Clients |-> Anonymous]
    /\ cache = {}
    /\ now = 0
    /\ api = [r \in RecipeIds |-> 1]
    /\ last = NoRequest
    /\ work = [w \in Workers |-> Idle]

\* Logins of the two registered users, and one with a wrong password
KnownLoginForms ==
    {[email |-> "alice@x.org", password |-> "Test1234!"],
     [email |-> "bob@x.org", password |-> "hunter2"],
     [email |-> "alice@x.org", password |-> "hunter2"]}

LoginKnown == \E c \in Clients, f \in KnownLoginForms : Login(c, "POST", f)

NextSaved ==
    \/ LoginKnown
    \/ \E c \in Clients : Logout(c)
    \/ \E c \in Clients, r \in RecipeIds : SaveRecipe(c, r)
    \/ \E c \in Clients, i \in RowIds : DeleteSavedRecipe(c, i)
    \/ ApiChange(1)

SpecSaved == InitRegistered /\ [][NextSaved]_vars

NextAuthored ==
    \/ LoginKnown
    \/ \E c \in Clients : Logout(c)
    \/ CreateRecipeRequest
    \/ \E c \in Clients : MyRecipes(c)
    \/ \E c \in Clients, i \in RowIds : DeleteMyRecipe(c, i)

SpecAuthored == InitRegistered /\ [][NextAuthored]_vars

NextCache ==
    \/ \E c \in Clients, r \in RecipeIds : ViewRecipe(c, r)
    \/ Tick
    \/ \E r \in RecipeIds : ApiChange(r)

SpecCache == InitRegistered /\ [][NextCache]_vars

\* Every login-protected route, on one external recipe and one form
OneRecipeForm ==
    [title |-> "Soup", ingredients |-> "Eggs, Milk, Salt",
     instructions |-> "Mix it all", image_url |-> "https://example.com/a.jpg"]

NextRoutes ==
    \/ LoginKnown
    \/ \E c \in Clients : Logout(c)
    \/ \E c \in Clients : SaveRecipe(c, 1)
    \/ \E c \in Clients : SavedRecipes(c)
    \/ \E c \in Clients, i \in RowIds : DeleteSavedRecipe(c, i)
    \/ \E c \in Clients : CreateRecipe(c, "POST", OneRecipeForm)
    \/ \E c \in Clients : MyRecipes(c)
    \/ \E c \in Clients, i \in RowIds : DeleteMyRecipe(c, i)

SpecRoutes == InitRegistered /\ [][NextRoutes]_vars

NextApi ==
    \/ LoginKnown
    \/ \E c \in Clients, r \in RecipeIds : SaveRecipe(c, r)
    \/ \E c \in Clients, r \in RecipeIds : ViewRecipe(c, r)

SpecApi == InitRegistered /\ [][NextApi]_vars

\* Two workers handling save_recipe requests for the same recipe id
NextWorkers ==
    \/ LoginKnown
    \/ \E w \in Workers, c \in Clients : SaveLookupRecipe(w, c, 1)
    \/ \E w \in Workers : SaveInsertRecipe(w)
    \/ \E w \in Workers : SaveLookupSaved(w)
    \/ \E w \in Workers : SaveInsertSaved(w)
    \/ \E w \in Workers : SaveInsertSavedConflict(w)

SpecWorkers == InitRegistered /\ [][NextWorkers]_vars

----------------------------------------------------------------------------
(* Properties *)

\* The step just taken handled a request to `route` (and was not a step of
\* the environment): `last'` is its response.
Handled(route) == last'.route = route /\ now' = now /\ api' = api

UsernameTaken(username) == \E u \in users : u.username = username

EmailTaken(email) == \E u \in users : u.email = email

UniqueUsers ==
    \A u1, u2 \in users :
        (u1.username = u2.username \/ u1.email = u2.email) => u1 = u2

DuplicateRegisterRejected ==
    (/\ Handled("register")
     /\ last'.arg \in RegistrationForms
     /\ RegistrationFormValid(last'.arg)
     /\ UsernameTaken(last'.arg.username) \/ EmailTaken(last'.arg.email))
    => /\ users' = users
       /\ session' = session
       /\ last'.status = 302
       /\ last'.target = "register"

\* C1: no two User rows ever share a username or an email, and a register
\* request whose username or email is already taken adds no row, changes no
\* row, leaves the session as it was and redirects to the registration page.
C1_RegistrationRejectsDuplicates ==
    []UniqueUsers /\ [][DuplicateRegisterRejected]_vars

\* C1 witness: a register request for a taken username or email was answered
\* with the redirect to the registration page.
C1_Witness ==
    /\ last.route = "register"
    /\ last.status = 302
    /\ last.target = "register"
    /\ UsernameTaken(last.arg.username) \/ EmailTaken(last.arg.email)

\* The rows whose email and password are the submitted ones
MatchingUsers(form) ==
    {u \in users : u.email = form.email
                   /\ u.password_hash = PasswordHash(form.password)}

LoginOnlyWithCredentials ==
    Handled("login") =>
        /\ last'.target = "index" =>
              \E u \in MatchingUsers(last'.arg) :
                  session' = [session EXCEPT ![last'.client] = u.id]
        /\ MatchingUsers(last'.arg) = {} =>
              /\ session' = session
              /\ last'.status = 200
              /\ last'.target = "login.html"
              /\ (last'.arg \in LoginForms /\ LoginFormValid(last'.arg)) =>
                    last'.flash =
                      <<"Login unsuccessful. Please check email and password.">>
        /\ \A c \in Clients : c # last'.client => session'[c] = session[c]
        /\ users' = users

\* C2: a login request authenticates the session as U only when a User row
\* with the submitted email exists and the submitted password matches it;
\* otherwise the session is unchanged and the login form is rendered again,
\* with the error message when the submitted form was complete.
C2_LoginOnlyWithCredentials == [][LoginOnlyWithCredentials]_vars

\* C2 witness: a login with the right email and a wrong password was refused
\* while the client stayed anonymous.
C2_Witness ==
    /\ last.route = "login"
    /\ last.status = 200
    /\ last.flash = <<"Login unsuccessful. Please check email and password.">>
    /\ EmailTaken(last.arg.email)
    /\ session[last.client] = Anonymous

\* C7: every register request that failed on a uniqueness violation flashed
\* a message naming the taken field (username or email).
C7_DuplicateRegisterIsExplained ==
    (last.route = "register" /\ last.target = "register" /\ last.status = 302) =>
        \/ /\ last.flash =
                 <<"Username already taken. Please choose a different one.">>
           /\ UsernameTaken(last.arg.username)
        \/ /\ last.flash =
                 <<"Email already taken. Please choose a different one.">>
           /\ EmailTaken(last.arg.email)

UniqueSaved ==
    \A s1, s2 \in savedRecipes :
        (s1.user_id = s2.user_id /\ s1.recipe_id = s2.recipe_id) => s1 = s2

SecondSaveRejected ==
    (/\ Handled("save_recipe")
     /\ last'.user # Anonymous
     /\ \E s \in savedRecipes :
           s.user_id = last'.user /\ s.recipe_id = last'.arg)
    => /\ savedRecipes' = savedRecipes
       /\ recipes' = recipes
       /\ last'.flash = <<"You have already saved this recipe!">>

\* C3: with requests handled one at a time there is at most one SavedRecipe
\* row per (user id, recipe id), and a save_recipe request for a pair that
\* has a row adds none and reports that the recipe is already saved.
C3_SavedAtMostOnce == []UniqueSaved /\ [][SecondSaveRejected]_vars

\* C3 witness: a user who has the recipe saved asked to save it again.
C3_Witness ==
    /\ last.route = "save_recipe"
    /\ last.flash = <<"You have already saved this recipe!">>
    /\ \E s \in savedRecipes : s.user_id = last.user /\ s.recipe_id = last.arg

ForeignDeleteRejected ==
    /\ (/\ Handled("delete_saved_recipe")
        /\ last'.user # Anonymous
        /\ \E s \in savedRecipes : s.id = last'.arg /\ s.user_id # last'.user)
       => /\ UNCHANGED db
          /\ last'.status = 302
          /\ last'.target = "saved_recipes"
          /\ last'.flash =
                <<"You are not authorized to delete this saved recipe.">>
    /\ (/\ Handled("delete_my_recipe")
        /\ last'.user # Anonymous
        /\ \E r \in userRecipes : r.id = last'.arg /\ r.user_id # last'.user)
       => /\ UNCHANGED db
          /\ last'.status = 302
          /\ last'.target = "my_recipes"
          /\ last'.flash = <<"You are not authorized to delete this recipe.">>

RemovedOnlyByOwner ==
    /\ \A s \in savedRecipes \ savedRecipes' :
          /\ Handled("delete_saved_recipe")
          /\ last'.arg = s.id
          /\ session[last'.client] = s.user_id
    /\ \A r \in userRecipes \ userRecipes' :
          /\ Handled("delete_my_recipe")
          /\ last'.arg = r.id
          /\ session[last'.client] = r.user_id

\* C4: a delete_saved_recipe or delete_my_recipe request by a logged-in user
\* who does not own the targeted row deletes nothing, changes no row and is
\* redirected with the not-authorized message; a SavedRecipe or UserRecipe
\* row is only ever removed by a request of its owner.
C4_ForeignDeleteRejected ==
    [][ForeignDeleteRejected /\ RemovedOnlyByOwner]_vars

\* C4 witness: a user was refused the deletion of another user's authored
\* recipe while a saved recipe of another user exists as well.
C4_Witness ==
    /\ last.route = "delete_my_recipe"
    /\ last.flash = <<"You are not authorized to delete this recipe.">>
    /\ \E r \in userRecipes : r.id = last.arg /\ r.user_id # last.user
    /\ \E s \in savedRecipes : s.user_id # last.user

CreatePersists ==
    (/\ Handled("create_recipe")
     /\ last'.user # Anonymous
     /\ last'.arg \in RecipeForms
     /\ RecipeFormValid(last'.arg))
    => /\ \E r \in userRecipes' \ userRecipes :
            /\ r.title = last'.arg.title
            /\ r.ingredients = last'.arg.ingredients
            /\ r.instructions = last'.arg.instructions
            /\ r.image_url = last'.arg.image_url
            /\ r.user_id = session[last'.client]
       /\ userRecipes \subseteq userRecipes'

MyRecipesListsOwn ==
    (Handled("my_recipes") /\ last'.user # Anonymous)
    => last'.body = {r \in userRecipes : r.user_id = session[last'.client]}

KeptUntilOwnerDeletes ==
    \A r \in userRecipes :
        \/ r \in userRecipes'
        \/ /\ Handled("delete_my_recipe")
           /\ last'.arg = r.id
           /\ session[last'.client] = r.user_id

\* C5: a valid create_recipe request by logged-in user U adds a UserRecipe
\* row with the submitted fields and user_id U; my_recipes answers U with
\* exactly the rows whose user_id is U; and a row stays, unchanged, until a
\* delete_my_recipe request of its owner removes it.
C5_CreatedRecipeIsListed ==
    [][CreatePersists /\ MyRecipesListsOwn /\ KeptUntilOwnerDeletes]_vars

\* C5 witness: my_recipes listed the requester's recipe while another user's
\* recipe exists.
C5_Witness ==
    /\ last.route = "my_recipes"
    /\ last.status = 200
    /\ \E r \in userRecipes : r.user_id = last.user /\ r \in last.body
    /\ \E r \in userRecipes : r.user_id # last.user

ApiFailures == {<<code>> : code \in StatusCodes \ {200}}

FailedApiCallChangesNothing ==
    /\ (/\ Handled("save_recipe")
        /\ last'.api \in ApiFailures)
       => /\ UNCHANGED <<db, cache>>
          /\ last'.status = 302
          /\ last'.target = "index"
          /\ last'.flash = <<"Recipe not found in Spoonacular!">>
    /\ (/\ Handled("view_recipe")
        /\ last'.api \in ApiFailures)
       => /\ UNCHANGED <<db, cache>>
          /\ last'.status = 404

\* The API is asked by save_recipe exactly when there is no local row
SaveAsksApiWhenNoLocalRow ==
    (Handled("save_recipe") /\ last'.user # Anonymous)
    => ((last'.api # <<>>) <=> (\A r \in recipes : r.id # last'.arg))

\* C6: when save_recipe finds no local Recipe row and the API answers with a
\* status other than 200, no Recipe and no SavedRecipe row is created and the
\* user is redirected to the home page with the not-found message; when
\* view_recipe gets such an answer it responds 404 and caches nothing.
C6_FailedApiCallChangesNothing ==
    [][FailedApiCallChangesNothing /\ SaveAsksApiWhenNoLocalRow]_vars

\* C6 witness: save_recipe got a 500 from the API for a recipe without a
\* local row.
C6_Witness ==
    /\ last.route = "save_recipe"
    /\ last.api = <<500>>
    /\ \A r \in recipes : r.id # last.arg
    /\ last.flash = <<"Recipe not found in Spoonacular!">>

UniqueRecipes == \A r1, r2 \in recipes : r1.id = r2.id => r1 = r2

RecipeCreatedLazilyOnce ==
    /\ recipes \subseteq recipes'
    /\ \A r \in recipes' \ recipes :
          /\ Handled("save_recipe")
          /\ last'.arg = r.id
          /\ \A x \in recipes : x.id # r.id
          /\ last'.api = <<200>>
          /\ r.user_id = session[last'.client]
          /\ r.user_id # Anonymous
          /\ r.title = RecipeTitle(r.id, api[r.id])
    /\ (/\ Handled("save_recipe")
        /\ last'.api = <<200>>)
       => \E r \in recipes' \ recipes : r.id = last'.arg

\* C8: a Recipe row with id R appears only in a save_recipe request for R
\* that found no local row with id R and got a 200 answer; it carries the
\* API's id and the requesting user's id; no second row for R is ever
\* created and no Recipe row is modified or removed afterwards.
C8_RecipeCreatedLazilyOnce ==
    []UniqueRecipes /\ [][RecipeCreatedLazilyOnce]_vars

\* C8 witness: a user other than the row's owner saved a recipe whose local
\* row was created before the API's data changed, and no API call was made.
C8_Witness ==
    /\ last.route = "save_recipe"
    /\ last.flash = <<"Recipe saved!">>
    /\ last.api = <<>>
    /\ \E r \in recipes :
          /\ r.id = last.arg
          /\ r.user_id # last.user
          /\ r.title # RecipeTitle(r.id, api[r.id])

\* The unexpired cache entries of a recipe id
Live(recipe_id) ==
    {e \in cache : e.key = CacheKey(recipe_id) /\ now < e.expires}

CacheServes ==
    Handled("view_recipe") =>
        /\ \A e \in Live(last'.arg) :
              /\ last'.api = <<>>
              /\ last'.status = 200
              /\ last'.body.recipe = e.value
              /\ last'.body.recipe.id = last'.arg
              /\ cache' = cache
        /\ Live(last'.arg) = {} => Len(last'.api) = 1
        /\ last'.api = <<200>> =>
              \E e \in cache' :
                  /\ e.key = CacheKey(last'.arg)
                  /\ e.expires = now + 3600
                  /\ e.value = last'.body.recipe
                  /\ e.value.id = last'.arg
                  /\ e.value.title = RecipeTitle(last'.arg, api[last'.arg])

CacheEntryKept ==
    \A e \in cache :
        \/ e \in cache'
        \/ /\ Handled("view_recipe")
           /\ e.key = CacheKey(last'.arg)
           /\ e.expires <= now

CacheKeyed ==
    \A e1, e2 \in cache : e1.key = e2.key => e1 = e2

ProtectedRoutes ==
    {"logout", "save_recipe", "saved_recipes", "delete_saved_recipe",
     "create_recipe", "my_recipes", "delete_my_recipe"}

AnonymousDoesNothing ==
    (/\ \E route \in ProtectedRoutes : Handled(route)
     /\ session[last'.client] \notin {u.id : u \in users})
    => /\ UNCHANGED <<db, seq, session, cache>>
       /\ last'.api = <<>>
       /\ last'.status = 302
       /\ last'.target = "login"

RowsCarryRequester ==
    /\ \A s \in savedRecipes' \ savedRecipes :
          /\ Handled("save_recipe")
          /\ s.user_id = session[last'.client]
          /\ s.user_id \in {u.id : u \in users}
    /\ \A r \in userRecipes' \ userRecipes :
          /\ Handled("create_recipe")
          /\ r.user_id = session[last'.client]
          /\ r.user_id \in {u.id : u \in users}

\* C10: a request to a login-protected route from a session that is not
\* authenticated changes no row, calls no external API and is redirected to
\* the login page; every SavedRecipe and UserRecipe row created by a route
\* carries the id of the user the requesting session is authenticated as.
C10_ProtectedRoutesNeedLogin ==
    [][AnonymousDoesNothing /\ RowsCarryRequester]_vars

\* C10 witness: an anonymous client asked to delete an existing saved recipe
\* and was sent to the login page.
C10_Witness ==
    /\ last.route = "delete_saved_recipe"
    /\ last.target = "login"
    /\ session[last.client] = Anonymous
    /\ \E s \in savedRecipes : s.id = last.arg

OneRecipeRowPerId ==
    \A r1, r2 \in recipes : r1.id = r2.id => r1 = r2

SavedImpliesRecipe ==
    \A s \in savedRecipes : \E r \in recipes : r.id = s.recipe_id

NoUnhandledDatabaseError == last.status # 500

\* C11: when save_recipe requests for the same recipe id are handled by two
\* workers whose database statements interleave, there is one Recipe row for
\* the id, at most one SavedRecipe row per (user id, recipe id), and no
\* request ends in an unhandled database error.
C11_NoSaveHazard ==
    /\ OneRecipeRowPerId
    /\ SavedImpliesRecipe
    /\ \A s1, s2 \in savedRecipes :
          (s1.user_id = s2.user_id /\ s1.recipe_id = s2.recipe_id) => s1 = s2
    /\ NoUnhandledDatabaseError

====
